---- MODULE Spec2Model ----
(***************************************************************************)
(* Model of src/api/keepalive.py: the start-up validation of               *)
(* SUPABASE_CONFIG, the probe _perform_ping, the two selectors and the     *)
(* three route handlers.                                                   *)
(*                                                                         *)
(* The handlers are `async def` functions that call the blocking Supabase  *)
(* client without awaiting, so the event loop runs one handler at a time   *)
(* from its first line to its response: the model serves one request at a  *)
(* time.  A step of the model is the code between two calls of the         *)
(* external client (create_client, the two catalog queries, the final      *)
(* select); each such call either returns, raises an Exception, or never   *)
(* answers.                                                                *)
(*                                                                         *)
(* Strings the code builds (f-strings, str.join) are modelled as the       *)
(* sequence of their pieces, in order.  Literals of the source that are    *)
(* not ASCII are written in English, with the source line named.           *)
(***************************************************************************)
EXTENDS Integers, Sequences, FiniteSets, TLC

VARIABLES
    SUPABASE_CONFIG_RAW,  \* the environment value read at line 17
    config_list,          \* module global, line 19
    startup_error,        \* module global, line 20
    pc,                   \* where the handler being served stands
    request,              \* the request being served, or the last one served
    i,                    \* keepalive_all: position of the loop of line 117 (1-based)
    success_count,        \* keepalive_all: line 116
    cur,                  \* position in config_list of the conf being probed
    schemas,              \* _perform_ping: line 57
    k,                    \* _perform_ping: position of the loop of line 63 (1-based)
    all_tables,           \* _perform_ping: line 62, a dict in insertion order
    calls,                \* calls of the external client made by the current probe
    ping_result,          \* the (success, msg) pair the current probe returned
    probes,               \* per target: calls of _perform_ping in this request
    results,              \* per target: outcome of its probe in this request
    response              \* the response of the last request served

vars == << SUPABASE_CONFIG_RAW, config_list, startup_error, pc, request, i,
           success_count, cur, schemas, k, all_tables, calls, ping_result,
           probes, results, response >>

(***************************************************************************)
(* Bounds of the model.                                                    *)
(***************************************************************************)
MaxTargets == 2     \* longest configuration array
MaxSchemas == 2     \* most rows the schema query returns
MaxTables == 2      \* most rows one table query returns

(***************************************************************************)
(* Values.                                                                 *)
(***************************************************************************)
required_fields == {"name", "supabase_url", "supabase_key", "table_name"}

ConfNames == {"a", "b"}
RequestNames == {"a", "b", "c"}
SchemaNames == {"public", "app"}
FaultDetails == {"connection dropped"}

FieldValues(f) ==
    IF f = "name" THEN ConfNames
    ELSE IF f = "supabase_url" THEN {"https://x.supabase.co", ""}
    ELSE IF f = "supabase_key" THEN {"key"}
    ELSE {"t"}

AllFieldValues == UNION {FieldValues(f) : f \in required_fields}

\* The key sets of the objects tried as array elements: complete, one key
\* missing, and two keys missing.
KeySets ==
    {K \in SUBSET required_fields : Cardinality(K) >= 3}
        \cup {{"name", "table_name"}}

\* A JSON value met as an array element: an object, or a number.
JsonObjects ==
    UNION {{[kind |-> "dict", d |-> f] :
               f \in {g \in [K -> AllFieldValues] :
                         \A key \in K : g[key] \in FieldValues(key)}} :
           K \in KeySets}

JsonNumber == [kind |-> "int", d |-> [key \in {} |-> ""]]

JsonElements == JsonObjects \cup {JsonNumber}

RECURSIVE SeqsUpTo(_, _)
SeqsUpTo(S, n) ==
    IF n = 0 THEN {<< >>}
    ELSE LET shorter == SeqsUpTo(S, n - 1)
         IN  shorter \cup {Append(s, x) : s \in {t \in shorter : Len(t) = n - 1}, x \in S}

\* What SUPABASE_CONFIG can hold: text that is no JSON, the JSON object {},
\* or a JSON array of elements.
RawInputs ==
    {[kind |-> "garbage", items |-> << >>], [kind |-> "dict", items |-> << >>]}
        \cup {[kind |-> "list", items |-> s] : s \in SeqsUpTo(JsonElements, MaxTargets)}

(***************************************************************************)
(* Python values.                                                          *)
(***************************************************************************)
None == [isNone |-> TRUE, str |-> << >>]
Str(pieces) == [isNone |-> FALSE, str |-> pieces]

\* Truth value of `startup_error` in `if startup_error:`.
Truthy(e) == ~e.isNone /\ e.str # << >>

\* sep.join(parts), parts a sequence of strings.
RECURSIVE Join(_, _)
Join(parts, sep) ==
    IF parts = << >> THEN << >>
    ELSE IF Len(parts) = 1 THEN << parts[1] >>
    ELSE << parts[1], sep >> \o Join(Tail(parts), sep)

\* The orders in which iterating a set of strings can produce it.
RECURSIVE Orders(_)
Orders(S) ==
    IF S = {} THEN {<< >>}
    ELSE UNION {{<< x >> \o o : o \in Orders(S \ {x})} : x \in S}

(***************************************************************************)
(* Start-up validation, lines 17-40.                                       *)
(***************************************************************************)
EmptyList == [kind |-> "list", items |-> << >>]

\* isinstance(config_list, list), line 25
IsList(v) == v.kind = "list"

EmptyArrayNoCheck(v) == FALSE

\* len(config_list) == 0, line 27
EmptyArray(v) == Len(v.items) = 0

MissingFieldsNoTable(conf) == (required_fields \ {"table_name"}) \ DOMAIN conf.d

\* required_fields - conf.keys(), line 33
MissingFields(conf) == required_fields \ DOMAIN conf.d

\* The first element the loop of line 32 stops at, or 0.
FirstBad(items) ==
    LET bad == {n \in 1..Len(items) :
                   items[n].kind # "dict" \/ MissingFields(items[n]) # {}}
    IN  IF bad = {} THEN 0 ELSE CHOOSE n \in bad : \A m \in bad : n <= m

\* The orders in which ', '.join(missing) of line 36 can list the missing
\* fields (the iteration order of a set of strings is not fixed).
JoinOrders(r) ==
    IF r.kind = "list" /\ FirstBad(r.items) # 0
          /\ r.items[FirstBad(r.items)].kind = "dict"
    THEN Orders(MissingFields(r.items[FirstBad(r.items)]))
    ELSE {<< >>}

\* The try block of lines 22-40: the two globals after it.
Load(r, order) ==
    IF r.kind = "garbage"
    THEN \* json.loads raises; config_list keeps its value of line 19
         [config_list |-> EmptyList,
          startup_error |-> Str(<< "Expecting value: line 1 column 1 (char 0)" >>)]
    ELSE LET v == [kind |-> r.kind, items |-> r.items] IN
         IF ~IsList(v)
         THEN \* line 26: "SUPABASE_CONFIG 必须是 JSON 数组格式"
              [config_list |-> v,
               startup_error |-> Str(<< "SUPABASE_CONFIG must be a JSON array" >>)]
         ELSE IF EmptyArray(v)
         THEN \* line 28: "SUPABASE_CONFIG 不能为空数组"
              [config_list |-> v,
               startup_error |-> Str(<< "SUPABASE_CONFIG must not be an empty array" >>)]
         ELSE LET b == FirstBad(v.items) IN
              IF b = 0 THEN [config_list |-> v, startup_error |-> None]
              ELSE IF v.items[b].kind # "dict"
              THEN \* conf.keys() raises AttributeError, caught at line 38
                   [config_list |-> v,
                    startup_error |-> Str(<< "'int' object has no attribute 'keys'" >>)]
              ELSE \* line 36: f"配置 index={idx} 缺少字段: {', '.join(missing)}"
                   [config_list |-> v,
                    startup_error |->
                        Str(<< "config index=", ToString(b - 1), " missing fields: " >>
                                \o Join(order, ", "))]

(***************************************************************************)
(* Helpers of the routes.                                                  *)
(***************************************************************************)
\* len(config_list); the only value that is no list is the object {}.
ConfLen(cl) == IF cl.kind = "list" THEN Len(cl.items) ELSE 0

StartupFailed(e) == Truthy(e)

NoResponse == [status_code |-> 0, status |-> "", message |-> << >>, detail |-> << >>]

\* JSONResponse(status_code=..., content={"status": ..., "message": ...})
JSONResponse(code, status, message) ==
    [status_code |-> code, status |-> status, message |-> message, detail |-> << >>]

\* What FastAPI answers to a raised HTTPException(status_code, detail).
HTTPException(code, detail) ==
    [status_code |-> code, status |-> "", message |-> << >>, detail |-> detail]

\* Lines 114, 133, 144.
StartupFailedResponse(e) ==
    JSONResponse(500, "error", << "Startup failed: " >> \o e.str)

IndexOutOfRangeNoLowerCheck(idx, n) == idx >= n

\* idx < 0 or idx >= len(config_list), line 92
IndexOutOfRange(idx, n) == idx < 0 \/ idx >= n

\* config_list[idx] of line 94 as a 1-based position: a negative idx counts
\* from the end; 0 stands for the IndexError of an idx beyond either end.
ListIndex(idx, n) ==
    IF idx >= 0 /\ idx < n THEN idx + 1
    ELSE IF idx < 0 /\ idx >= -n THEN n + idx + 1
    ELSE 0

\* _get_conf_by_index: the position found, or the status raised.
GetConfByIndex(cl, idx) ==
    IF IndexOutOfRange(idx, ConfLen(cl))
    THEN [status |-> 404, pos |-> 0]
    ELSE IF ListIndex(idx, ConfLen(cl)) = 0
    THEN [status |-> 500, pos |-> 0]
    ELSE [status |-> 0, pos |-> ListIndex(idx, ConfLen(cl))]

Matching(cl, name) ==
    {n \in 1..ConfLen(cl) : cl.items[n].d["name"] = name}

GetConfByNameLast(cl, name) ==
    LET m == Matching(cl, name)
    IN  IF m = {} THEN [status |-> 404, pos |-> 0]
        ELSE [status |-> 0, pos |-> CHOOSE n \in m : \A o \in m : n >= o]

\* _get_conf_by_name: the first conf of the loop of line 98 whose name is equal.
GetConfByName(cl, name) ==
    LET m == Matching(cl, name)
    IN  IF m = {} THEN [status |-> 404, pos |-> 0]
        ELSE [status |-> 0, pos |-> CHOOSE n \in m : \A o \in m : n <= o]

AggregateOffByOne(sc, n) ==
    IF sc = n THEN JSONResponse(200, "success", << "ok" >>)
    ELSE IF sc > 1 THEN JSONResponse(500, "error", << "partial_failure" >>)
    ELSE JSONResponse(500, "error", << "all_failure" >>)

\* Lines 122-127.
Aggregate(sc, n) ==
    IF sc = n THEN JSONResponse(200, "success", << "ok" >>)
    ELSE IF sc > 0 THEN JSONResponse(500, "error", << "partial_failure" >>)
    ELSE JSONResponse(500, "error", << "all_failure" >>)

\* Lines 137-138 and 148-149.
ProbeResponse(res) ==
    JSONResponse(IF res.success THEN 200 ELSE 500,
                 IF res.success THEN "success" ELSE "error",
                 res.msg)

(***************************************************************************)
(* _perform_ping, lines 45-88.                                             *)
(***************************************************************************)
\* One call of the external client: what was called, and how it ended.
Call(op, arg) ==
    [op |-> op, arg |-> arg, ret |-> "pending", rows |-> << >>, detail |-> ""]

\* The log with its last call ended.
Ended(c, ret, rows, detail) ==
    [c EXCEPT ![Len(c)] = [@ EXCEPT !.ret = ret, !.rows = rows, !.detail = detail]]

\* The rows a table query returns: cnt table names.
TableRows(cnt) == [j \in 1..cnt |-> "t" \o ToString(j)]

SchemaRowSeqs == SeqsUpTo(SchemaNames, MaxSchemas)

NoResult == [done |-> FALSE, success |-> FALSE, msg |-> << >>]

NoSchemasNoCheck(rows) == FALSE

\* not schemas, line 58
NoSchemas(rows) == rows = << >>

DictSetAppend(at, key, val) == Append(at, [schema |-> key, tables |-> val])

\* all_tables[schema] = tables, line 72: a key already present keeps its
\* place and takes the new value; a new key goes last.
DictSet(at, key, val) ==
    IF \E n \in 1..Len(at) : at[n].schema = key
    THEN [n \in 1..Len(at) |->
             IF at[n].schema = key THEN [schema |-> key, tables |-> val] ELSE at[n]]
    ELSE Append(at, [schema |-> key, tables |-> val])

\* f"{s}: [{', '.join(ts)}]" of line 84
SchemaEntry(s, ts) == << s, ": [" >> \o Join(ts, ", ") \o << "]" >>

\* ", ".join([... for s, ts in all_tables.items()]), line 84
RECURSIVE SchemaInfo(_)
SchemaInfo(at) ==
    IF at = << >> THEN << >>
    ELSE SchemaEntry(at[1].schema, at[1].tables)
             \o (IF Len(at) > 1 THEN << ", " >> \o SchemaInfo(Tail(at)) ELSE << >>)

\* Line 59.
NoSchemasResult(name) ==
    [done |-> TRUE, success |-> FALSE, msg |-> << "No schemas found for ", name >>]

\* Line 75.
NoTablesResult(name) ==
    [done |-> TRUE, success |-> FALSE,
     msg |-> << "No tables found in any schema for ", name >>]

\* Line 85.
PingOk(name, at) ==
    [done |-> TRUE, success |-> TRUE,
     msg |-> << "Pinged ", name, " (schemas and tables: " >>
                 \o SchemaInfo(at) \o << ") ", "successfully" >>]

PingExceptNoName(name, detail) ==
    [done |-> TRUE, success |-> FALSE, msg |-> << "Error pinging ", detail >>]

\* Lines 87-88.
PingExcept(name, detail) ==
    [done |-> TRUE, success |-> FALSE,
     msg |-> << "Error pinging ", name, ": ", detail >>]

(***************************************************************************)
(* The state after the module is imported.                                 *)
(***************************************************************************)
NoRequest == [route |-> "none", given |-> FALSE, idx |-> 0, name |-> ""]

NoProbes(cl) == [t \in 1..ConfLen(cl) |-> 0]
NoResults(cl) == [t \in 1..ConfLen(cl) |-> "none"]

Init ==
    /\ \E r \in RawInputs : \E order \in JoinOrders(r) :
          /\ SUPABASE_CONFIG_RAW = r
          /\ config_list = Load(r, order).config_list
          /\ startup_error = Load(r, order).startup_error
    /\ pc = "idle"
    /\ request = NoRequest
    /\ i = 0
    /\ success_count = 0
    /\ cur = 0
    /\ schemas = << >>
    /\ k = 0
    /\ all_tables = << >>
    /\ calls = << >>
    /\ ping_result = NoResult
    /\ probes = NoProbes(config_list)
    /\ results = NoResults(config_list)
    /\ response = NoResponse

(***************************************************************************)
(* Pieces of the actions.                                                  *)
(***************************************************************************)
globals == << SUPABASE_CONFIG_RAW, config_list, startup_error >>
handlerVars == << request, i, success_count, cur, probes, response >>

ConfOf(t) == config_list.items[t].d

\* No probe was entered: the locals of _perform_ping do not exist.
NoPing ==
    /\ cur' = 0
    /\ schemas' = << >>
    /\ k' = 0
    /\ all_tables' = << >>
    /\ calls' = << >>
    /\ ping_result' = NoResult

\* _perform_ping(config_list[t]) is entered and runs to its first call of the
\* client, create_client of line 48; pr counts the probes made before.
StartPing(t, pr) ==
    /\ cur' = t
    /\ schemas' = << >>
    /\ k' = 0
    /\ all_tables' = << >>
    /\ calls' = << Call("create_client",
                        << ConfOf(t)["supabase_url"], ConfOf(t)["supabase_key"] >>) >>
    /\ ping_result' = NoResult
    /\ probes' = [pr EXCEPT ![t] = @ + 1]
    /\ pc' = "create_client"

\* The handler returns resp.
Respond(resp) ==
    /\ response' = resp
    /\ pc' = "idle"

\* _perform_ping returns res, its calls having been c.
PingReturn(res, c) ==
    /\ ping_result' = res
    /\ calls' = c
    /\ results' = [results EXCEPT ![cur] = IF res.success THEN "ok" ELSE "fail"]
    /\ pc' = "returned"
    /\ UNCHANGED << globals, handlerVars >>

\* The probe makes its next call of the client.
Issue(c, call) ==
    /\ calls' = Append(c, call)
    /\ pc' = call.op
    /\ UNCHANGED << globals, handlerVars, ping_result, results >>

\* for schema in schemas, line 63: whether the loop, pos schemas done, goes on.
HasNextSchema(pos, n) == pos < n

HasNextTargetSkipLast(pos, n) == pos + 1 < n

\* for idx, conf in enumerate(config_list), line 117: whether the loop, pos
\* targets done, goes on.
HasNextTarget(pos, n) == pos < n

\* Lines 63-81 from the point where kdone schemas have been enumerated: the
\* next table query, or the end of the loop and what follows it.
ContinueTables(rows, kdone, at, c) ==
    /\ schemas' = rows
    /\ all_tables' = at
    /\ IF HasNextSchema(kdone, Len(rows))
       THEN /\ k' = kdone + 1
            /\ Issue(c, Call("sql_tables", << rows[kdone + 1] >>))
       ELSE /\ k' = kdone
            /\ IF at = << >>
               THEN PingReturn(NoTablesResult(ConfOf(cur)["name"]), c)
               ELSE \* lines 78-81: first key, first table
                    Issue(c, Call("select",
                                  << at[1].schema, ".", at[1].tables[1] >>))

(***************************************************************************)
(* The routes, lines 109-149: a request arrives and its handler runs to    *)
(* its response or to its first call of the external client.               *)
(***************************************************************************)
IdxInputs == (0 - (MaxTargets + 1))..(MaxTargets + 1)

\* GET /api/keepalive and /api/keepalive/all
keepalive_all ==
    /\ pc = "idle"
    /\ request' = [route |-> "all", given |-> FALSE, idx |-> 0, name |-> ""]
    /\ results' = NoResults(config_list)
    /\ success_count' = 0
    /\ UNCHANGED globals
    /\ IF StartupFailed(startup_error)
       THEN /\ Respond(StartupFailedResponse(startup_error))
            /\ probes' = NoProbes(config_list)
            /\ i' = 0
            /\ NoPing
       ELSE IF HasNextTarget(0, ConfLen(config_list))
       THEN /\ i' = 1
            /\ StartPing(1, NoProbes(config_list))
            /\ response' = NoResponse
       ELSE /\ Respond(Aggregate(0, ConfLen(config_list)))
            /\ probes' = NoProbes(config_list)
            /\ i' = 0
            /\ NoPing

\* GET /api/keepalive/index (idx takes its default, 0) and
\* /api/keepalive/index/{idx}
keepalive_by_index ==
    /\ pc = "idle"
    /\ \E given \in BOOLEAN : \E idx \in (IF given THEN IdxInputs ELSE {0}) :
          /\ request' = [route |-> "index", given |-> given, idx |-> idx, name |-> ""]
          /\ IF StartupFailed(startup_error)
             THEN /\ Respond(StartupFailedResponse(startup_error))
                  /\ probes' = NoProbes(config_list)
                  /\ NoPing
             ELSE LET got == GetConfByIndex(config_list, idx) IN
                  IF got.status = 404
                  THEN \* line 93: f"index {idx} 不存在"
                       /\ Respond(HTTPException(404,
                              << "index ", ToString(idx), " does not exist" >>))
                       /\ probes' = NoProbes(config_list)
                       /\ NoPing
                  ELSE IF got.status = 500
                  THEN \* an IndexError at line 94 would leave the handler
                       /\ Respond(HTTPException(500, << "Internal Server Error" >>))
                       /\ probes' = NoProbes(config_list)
                       /\ NoPing
                  ELSE /\ StartPing(got.pos, NoProbes(config_list))
                       /\ response' = NoResponse
    /\ results' = NoResults(config_list)
    /\ i' = 0
    /\ success_count' = 0
    /\ UNCHANGED globals

\* GET /api/keepalive/name/{conf_name}
keepalive_by_name ==
    /\ pc = "idle"
    /\ \E name \in RequestNames :
          /\ request' = [route |-> "name", given |-> TRUE, idx |-> 0, name |-> name]
          /\ IF StartupFailed(startup_error)
             THEN /\ Respond(StartupFailedResponse(startup_error))
                  /\ probes' = NoProbes(config_list)
                  /\ NoPing
             ELSE LET got == GetConfByName(config_list, name) IN
                  IF got.status = 404
                  THEN \* line 101: f"name '{name}' 未找到对应配置"
                       /\ Respond(HTTPException(404,
                              << "name '", name, "' has no configuration" >>))
                       /\ probes' = NoProbes(config_list)
                       /\ NoPing
                  ELSE /\ StartPing(got.pos, NoProbes(config_list))
                       /\ response' = NoResponse
    /\ results' = NoResults(config_list)
    /\ i' = 0
    /\ success_count' = 0
    /\ UNCHANGED globals

(***************************************************************************)
(* The calls of the external client end.                                   *)
(***************************************************************************)
\* create_client of line 48 returns a client, or raises.
CreateClientReturn ==
    /\ pc = "create_client"
    /\ UNCHANGED << schemas, k, all_tables >>
    /\ \/ Issue(Ended(calls, "ok", << >>, ""), Call("sql_schemas", << >>))
       \/ \E d \in FaultDetails :
             PingReturn(PingExcept(ConfOf(cur)["name"], d),
                        Ended(calls, "fault", << >>, d))

\* The schema query of lines 51-55 returns its rows, or raises.
SchemasReturn ==
    /\ pc = "sql_schemas"
    /\ \/ \E rows \in SchemaRowSeqs :
             LET c == Ended(calls, "ok", rows, "") IN
             IF NoSchemas(rows)
             THEN /\ schemas' = rows
                  /\ UNCHANGED << k, all_tables >>
                  /\ PingReturn(NoSchemasResult(ConfOf(cur)["name"]), c)
             ELSE ContinueTables(rows, 0, << >>, c)
       \/ \E d \in FaultDetails :
             /\ UNCHANGED << schemas, k, all_tables >>
             /\ PingReturn(PingExcept(ConfOf(cur)["name"], d),
                           Ended(calls, "fault", << >>, d))

\* The table query of lines 64-68 for schemas[k] returns its rows, or raises.
TablesReturn ==
    /\ pc = "sql_tables"
    /\ \/ \E cnt \in 0..MaxTables :
             LET tables == TableRows(cnt)
                 at == IF tables # << >>
                       THEN DictSet(all_tables, schemas[k], tables)
                       ELSE all_tables
             IN  ContinueTables(schemas, k, at, Ended(calls, "ok", tables, ""))
       \/ \E d \in FaultDetails :
             /\ UNCHANGED << schemas, k, all_tables >>
             /\ PingReturn(PingExcept(ConfOf(cur)["name"], d),
                           Ended(calls, "fault", << >>, d))

\* The select of line 81 returns, or raises.
SelectReturn ==
    /\ pc = "select"
    /\ UNCHANGED << schemas, k, all_tables >>
    /\ \/ PingReturn(PingOk(ConfOf(cur)["name"], all_tables),
                     Ended(calls, "ok", << >>, ""))
       \/ \E d \in FaultDetails :
             PingReturn(PingExcept(ConfOf(cur)["name"], d),
                        Ended(calls, "fault", << >>, d))

\* A call of the external client never answers: the code sets no timeout and
\* the handler, and with it the event loop, waits for ever.
Hang ==
    /\ pc \in {"create_client", "sql_schemas", "sql_tables", "select"}
    /\ pc' = "hung"
    /\ UNCHANGED << globals, handlerVars, schemas, k, all_tables, calls,
                    ping_result, results >>

\* _perform_ping has returned to its caller, which runs to its response or to
\* the next probe (lines 118-127, 136-138, 147-149); the locals of the probe
\* are gone.
AfterPing ==
    /\ pc = "returned"
    /\ UNCHANGED << globals, request, results >>
    /\ IF request.route = "all"
       THEN LET sc == success_count + (IF ping_result.success THEN 1 ELSE 0) IN
            /\ success_count' = sc
            /\ IF HasNextTarget(i, ConfLen(config_list))
               THEN /\ i' = i + 1
                    /\ StartPing(i + 1, probes)
                    /\ UNCHANGED response
               ELSE /\ Respond(Aggregate(sc, ConfLen(config_list)))
                    /\ NoPing
                    /\ UNCHANGED << i, probes >>
       ELSE /\ Respond(ProbeResponse(ping_result))
            /\ NoPing
            /\ UNCHANGED << i, success_count, probes >>

HandlerStep ==
    \/ CreateClientReturn
    \/ SchemasReturn
    \/ TablesReturn
    \/ SelectReturn
    \/ AfterPing

Next ==
    \/ keepalive_all
    \/ keepalive_by_index
    \/ keepalive_by_name
    \/ HandlerStep
    \/ Hang

Spec == Init /\ [][Next]_vars

\* The code between two calls always runs on: only a call that never
\* answers stops a handler.
FairSpec == Spec /\ WF_vars(HandlerStep)

(***************************************************************************)
(* Vocabulary of the properties.                                           *)
(***************************************************************************)
NumTargets == ConfLen(config_list)
Targets == 1..NumTargets
ValidStartup == ~Truthy(startup_error)
ProbedName == config_list.items[cur].d["name"]

Reply(code, status, message) ==
    [status_code |-> code, status |-> status, message |-> message, detail |-> << >>]

NothingProbed == calls = << >> /\ \A t \in DOMAIN probes : probes[t] = 0

\* sub occurs in msg as a run of consecutive pieces.
Contains(msg, sub) ==
    \E p \in 0..(Len(msg) - Len(sub)) : SubSeq(msg, p + 1, p + Len(sub)) = sub

\* "ns: [t1, t2]"
Listing(ns, ts) ==
    << ns, ": [" >>
        \o [p \in 1..(IF ts = << >> THEN 0 ELSE 2 * Len(ts) - 1) |->
               IF p % 2 = 1 THEN ts[(p + 1) \div 2] ELSE ", "]
        \o << "]" >>

TableCalls == {j \in 1..Len(calls) : calls[j].op = "sql_tables"}
NonEmptyTableCalls == {j \in TableCalls : calls[j].ret = "ok" /\ calls[j].rows # << >>}
SchemaRows == IF Len(calls) >= 2 /\ calls[2].ret = "ok" THEN calls[2].rows ELSE << >>
SchemasAnswered == Len(calls) >= 2 /\ calls[2].op = "sql_schemas" /\ calls[2].ret = "ok"
NoFault == \A j \in 1..Len(calls) : calls[j].ret # "fault"
SelectIssued == \E j \in 1..Len(calls) : calls[j].op = "select"

\* The namespaces some enumeration found a base table in, and the tables of
\* the last such enumeration.
HeldNamespaces == {calls[j].arg[1] : j \in NonEmptyTableCalls}
LastTables(ns) ==
    LET js == {j \in NonEmptyTableCalls : calls[j].arg[1] = ns}
    IN  calls[CHOOSE j \in js : \A o \in js : j >= o].rows

RawInvalid ==
    \/ SUPABASE_CONFIG_RAW.kind # "list"
    \/ SUPABASE_CONFIG_RAW.items = << >>
    \/ \E n \in 1..Len(SUPABASE_CONFIG_RAW.items) :
          \/ SUPABASE_CONFIG_RAW.items[n].kind # "dict"
          \/ ~(required_fields \subseteq DOMAIN SUPABASE_CONFIG_RAW.items[n].d)

(***************************************************************************)
(* C1.  If start-up validation failed (the raw value is no array, is the   *)
(* empty array, or has an element that lacks one of the four keys), every  *)
(* request on every route is answered 500 "Startup failed: " followed by   *)
(* the stored message, never 404, no probe is entered and no call of the   *)
(* client is made; the stored failure never changes.                       *)
(***************************************************************************)
C1_StartupFailureIsPermanent ==
    /\ [](RawInvalid =>
            /\ Truthy(startup_error)
            /\ pc = "idle"
            /\ NothingProbed
            /\ request.route # "none" =>
                  response = Reply(500, "error",
                                   << "Startup failed: " >> \o startup_error.str))
    /\ [][Truthy(startup_error) => startup_error' = startup_error]_vars

C1_Witness ==
    /\ RawInvalid
    /\ request.route = "index"
    /\ request.idx = MaxTargets + 1
    /\ response.status_code = 500

Successes == Cardinality({t \in DOMAIN results : results[t] = "ok"})

(***************************************************************************)
(* C2.  With a valid configuration the all-targets route answers           *)
(* 200 success "ok" exactly when every probe succeeded, 500 "all_failure"  *)
(* exactly when none did, and 500 "partial_failure" otherwise: the answer  *)
(* is a function of the number of successful probes.                       *)
(***************************************************************************)
C2_AggregateStatus ==
    (ValidStartup /\ request.route = "all" /\ pc = "idle") =>
        /\ response = Reply(200, "success", << "ok" >>) <=> Successes = NumTargets
        /\ response = Reply(500, "error", << "all_failure" >>) <=> Successes = 0
        /\ response = Reply(500, "error", << "partial_failure" >>)
              <=> (Successes # 0 /\ Successes # NumTargets)

C2_Witness ==
    /\ ValidStartup /\ request.route = "all" /\ pc = "idle"
    /\ NumTargets = 2 /\ results[1] = "ok" /\ results[2] = "fail"
    /\ response.message = << "partial_failure" >>

(***************************************************************************)
(* C3.  In one all-targets request with a valid configuration every        *)
(* target is probed exactly once, whatever the other probes returned: the  *)
(* targets up to the loop position have been probed once, the later ones   *)
(* not yet, and at the response all of them have been probed once.         *)
(***************************************************************************)
C3_EveryTargetOnce ==
    (ValidStartup /\ request.route = "all") =>
        /\ \A t \in Targets : probes[t] = (IF t <= i THEN 1 ELSE 0)
        /\ pc = "idle" =>
              \A t \in Targets : probes[t] = 1 /\ results[t] # "none"

C3_Witness ==
    /\ ValidStartup /\ request.route = "all" /\ pc = "idle"
    /\ NumTargets = 2 /\ results[1] = "fail" /\ results[2] = "ok"
    /\ probes[2] = 1

(***************************************************************************)
(* C4.  A call of the client that raises is the last call of its probe,    *)
(* and the probe returns to its caller (False, "Error pinging {name}:      *)
(* {detail}") whichever step raised.                                       *)
(***************************************************************************)
C4_FaultEndsProbe ==
    \A j \in 1..Len(calls) :
        calls[j].ret = "fault" =>
            /\ j = Len(calls)
            /\ pc = "returned"
            /\ ping_result =
                  [done |-> TRUE, success |-> FALSE,
                   msg |-> << "Error pinging ", ProbedName, ": ", calls[j].detail >>]

C4_Witness ==
    /\ pc = "returned"
    /\ Len(calls) = 4
    /\ calls[4].op = "sql_tables"
    /\ calls[4].ret = "fault"
    /\ ~ping_result.success

(***************************************************************************)
(* C5.  With a valid configuration of n targets the index route answers    *)
(* 404 without probing when idx < 0 or idx >= n, and otherwise probes the  *)
(* target at position idx once and no other; without idx it takes idx 0.   *)
(***************************************************************************)
C5_IndexRoute ==
    (ValidStartup /\ request.route = "index") =>
        /\ ~request.given => request.idx = 0
        /\ IF request.idx < 0 \/ request.idx >= NumTargets
           THEN /\ pc = "idle"
                /\ response.status_code = 404
                /\ NothingProbed
           ELSE /\ \A t \in Targets :
                      probes[t] = (IF t = request.idx + 1 THEN 1 ELSE 0)
                /\ pc # "idle" => cur = request.idx + 1
                /\ pc = "idle" =>
                      /\ response.status_code \in {200, 500}
                      /\ results[request.idx + 1] # "none"

C5_Witness ==
    /\ ValidStartup /\ request.route = "index"
    /\ request.idx = 0 - 1
    /\ NumTargets = 2
    /\ response.status_code = 404

Carriers == {t \in Targets : config_list.items[t].d["name"] = request.name}
FirstCarrier == CHOOSE t \in Carriers : \A o \in Carriers : t <= o

(***************************************************************************)
(* C6.  With a valid configuration the name route answers 404 without      *)
(* probing when no target carries the name, and otherwise probes the       *)
(* first target that carries it, once, and no other target.                *)
(***************************************************************************)
C6_NameRoute ==
    (ValidStartup /\ request.route = "name") =>
        IF Carriers = {}
        THEN /\ pc = "idle"
             /\ response.status_code = 404
             /\ NothingProbed
        ELSE /\ \A t \in Targets : probes[t] = (IF t = FirstCarrier THEN 1 ELSE 0)
             /\ pc # "idle" => cur = FirstCarrier
             /\ pc = "idle" =>
                   /\ response.status_code \in {200, 500}
                   /\ results[FirstCarrier] # "none"

C6_Witness ==
    /\ ValidStartup /\ request.route = "name" /\ pc = "idle"
    /\ Cardinality(Carriers) = 2
    /\ probes[1] = 1 /\ probes[2] = 0
    /\ response.status_code = 200

(***************************************************************************)
(* C7.  A probe whose catalog queries all answer never issues the select   *)
(* unless some table query returned a table.  When the schema query        *)
(* returns no row the probe returns (False, "No schemas found for {name}") *)
(* and makes no table query; when it returns rows and every table query    *)
(* returns none, the probe returns (False, "No tables found in any schema  *)
(* for {name}").                                                           *)
(***************************************************************************)
C7_EmptyDiscoveryFails ==
    /\ (SchemasAnswered /\ SchemaRows = << >>) =>
          /\ pc = "returned"
          /\ Len(calls) = 2
          /\ ping_result = [done |-> TRUE, success |-> FALSE,
                            msg |-> << "No schemas found for ", ProbedName >>]
    /\ SelectIssued => NonEmptyTableCalls # {}
    /\ (/\ pc = "returned"
        /\ NoFault
        /\ SchemasAnswered /\ SchemaRows # << >>
        /\ NonEmptyTableCalls = {}) =>
          /\ Len(calls) = 2 + Len(SchemaRows)
          /\ ~SelectIssued
          /\ ping_result = [done |-> TRUE, success |-> FALSE,
                            msg |-> << "No tables found in any schema for ",
                                       ProbedName >>]

C7_Witness ==
    /\ pc = "returned"
    /\ Len(SchemaRows) = 2
    /\ Len(calls) = 4
    /\ NoFault
    /\ NonEmptyTableCalls = {}
    /\ ping_result.msg[1] = "No tables found in any schema for "

(***************************************************************************)
(* C8.  As claimed: the message of a probe that succeeds ends with         *)
(* "successfully" and lists every namespace the schema query returned,     *)
(* with the tables one of its table queries returned (none, for a          *)
(* namespace that holds no base table).                                    *)
(***************************************************************************)
C8_ListsEveryDiscoveredNamespace ==
    (pc = "returned" /\ ping_result.success) =>
        /\ Contains(ping_result.msg, << "successfully" >>)
        /\ \A j \in 1..Len(SchemaRows) :
              \E o \in TableCalls :
                  /\ calls[o].arg[1] = SchemaRows[j]
                  /\ Contains(ping_result.msg,
                              Listing(SchemaRows[j], calls[o].rows))

ListedAt == {p \in 1..(Len(ping_result.msg) - 1) : ping_result.msg[p + 1] = ": ["}

(***************************************************************************)
(* C8, amended.  The message of a probe that succeeds ends with            *)
(* "successfully" and lists, once each, exactly the namespaces for which   *)
(* some table query returned a table, each with the tables of the last     *)
(* such query; a namespace with no base table is not listed.               *)
(***************************************************************************)
C8_ListsNamespacesHoldingTables ==
    (pc = "returned" /\ ping_result.success) =>
        /\ Contains(ping_result.msg, << "successfully" >>)
        /\ SubSeq(ping_result.msg, 1, 3)
              = << "Pinged ", ProbedName, " (schemas and tables: " >>
        /\ \A ns \in HeldNamespaces :
              Contains(ping_result.msg, Listing(ns, LastTables(ns)))
        /\ {ping_result.msg[p] : p \in ListedAt} = HeldNamespaces
        /\ Cardinality(ListedAt) = Cardinality(HeldNamespaces)

C8_Witness ==
    /\ pc = "returned" /\ ping_result.success
    /\ SchemaRows = << "public", "app" >>
    /\ calls[3].rows = << >>
    /\ Len(calls[4].rows) = 2

(***************************************************************************)
(* C9.  As claimed: a probe whose backend never answers is ended as a      *)
(* failure, so every request gets its response.                            *)
(***************************************************************************)
C9_EveryRequestAnswered ==
    /\ [](pc = "hung" => <>(pc = "returned" /\ ~ping_result.success))
    /\ (pc # "idle") ~> (pc = "idle")

(***************************************************************************)
(* C10.  As claimed: when validation passes the configuration list is not  *)
(* empty and every target has its four fields, none of them empty.         *)
(***************************************************************************)
C10_FieldsNonEmpty ==
    ValidStartup =>
        /\ NumTargets >= 1
        /\ \A t \in Targets : \A f \in required_fields :
              /\ f \in DOMAIN config_list.items[t].d
              /\ config_list.items[t].d[f] # ""

(***************************************************************************)
(* C10, amended.  When validation passes the configuration is a non-empty  *)
(* list of objects that each have the four keys (their values may be       *)
(* empty); no request changes the list or the start-up error.              *)
(***************************************************************************)
C10_FieldsPresent ==
    /\ [](ValidStartup =>
            /\ config_list.kind = "list"
            /\ NumTargets >= 1
            /\ \A t \in Targets :
                  /\ config_list.items[t].kind = "dict"
                  /\ required_fields \subseteq DOMAIN config_list.items[t].d)
    /\ [][config_list' = config_list /\ startup_error' = startup_error]_vars

C10_Witness ==
    /\ ValidStartup
    /\ pc = "idle" /\ request.route = "all"
    /\ config_list.items[1].d["supabase_url"] = ""
    /\ response.status_code = 500

====
